---- MODULE Spec2Model ----
(***************************************************************************)
(* Bandwidth-Hero proxy (Rust): the request pipeline of src/main.rs, the   *)
(* bypass policy of src/should_compress.rs, the transcoder of              *)
(* src/compress.rs and the header projection of src/pick.rs, as a state    *)
(* machine.                                                                *)
(*                                                                         *)
(* Strings whose characters the code inspects (content types, format       *)
(* tags) are sequences of one-character strings, so that starts_with,      *)
(* ends_with and eq_ignore_ascii_case are computed as the code computes    *)
(* them.  A byte vector is a record [content, len]: the code only copies   *)
(* byte vectors and takes their length.                                    *)
(***************************************************************************)
EXTENDS Integers, Sequences, FiniteSets, TLC

(***************************************************************************)
(* Bounds of the model.                                                    *)
(***************************************************************************)
\* Detached blocking GETs (their request future was dropped) that are
\* tracked at the same time; the code has no such limit.
MaxOrphans == 1
\* Entries of the header map handed to pick.
MaxHeaders == 2

(***************************************************************************)
(* Program constants.                                                      *)
(***************************************************************************)
\* main.rs: Semaphore::new(10)
Permits == 10
\* (mutant) the loop runs once more
fetch_attempts_three == 2 + 1
\* main.rs: for _attempt in 0..2
fetch_attempts == 2
\* main.rs: ServerConfig::default().bypass_threshold
bypass_threshold == 10240
\* main.rs: parse_query_params, .unwrap_or(40)
default_quality == 40
\* should_compress.rs: Config::default()
min_compress_length == 2048
min_transparent_compress_length == 102400
max_original_size == 5 * 1024 * 1024
\* compress.rs: Config::default()
max_width == 400
max_jpeg_height == 32767
max_avif_height == 16383
grayscale_quality_min == 10
grayscale_quality_max == 40

(***************************************************************************)
(* Option and Result values.                                               *)
(***************************************************************************)
None == [some |-> FALSE]
Some(x) == [some |-> TRUE, val |-> x]
Ok(x) == [ok |-> TRUE, val |-> x]
Err(e) == [ok |-> FALSE, err |-> e]

(***************************************************************************)
(* Strings as character sequences.                                         *)
(***************************************************************************)
UpperToLower ==
    ("A" :> "a") @@ ("B" :> "b") @@ ("C" :> "c") @@ ("D" :> "d") @@
    ("E" :> "e") @@ ("F" :> "f") @@ ("G" :> "g") @@ ("H" :> "h") @@
    ("I" :> "i") @@ ("J" :> "j") @@ ("K" :> "k") @@ ("L" :> "l") @@
    ("M" :> "m") @@ ("N" :> "n") @@ ("O" :> "o") @@ ("P" :> "p") @@
    ("Q" :> "q") @@ ("R" :> "r") @@ ("S" :> "s") @@ ("T" :> "t") @@
    ("U" :> "u") @@ ("V" :> "v") @@ ("W" :> "w") @@ ("X" :> "x") @@
    ("Y" :> "y") @@ ("Z" :> "z")

\* u8::to_ascii_lowercase on one character
to_ascii_lowercase(c) == IF c \in DOMAIN UpperToLower THEN UpperToLower[c] ELSE c

\* str::eq_ignore_ascii_case
eq_ignore_ascii_case(a, b) ==
    /\ Len(a) = Len(b)
    /\ \A i \in 1..Len(a) : to_ascii_lowercase(a[i]) = to_ascii_lowercase(b[i])

\* str::starts_with (case-sensitive)
starts_with(s, prefix) ==
    /\ Len(prefix) <= Len(s)
    /\ SubSeq(s, 1, Len(prefix)) = prefix

\* str::ends_with (case-sensitive)
ends_with(s, suffix) ==
    /\ Len(suffix) <= Len(s)
    /\ SubSeq(s, Len(s) - Len(suffix) + 1, Len(s)) = suffix

str_image_slash == <<"i", "m", "a", "g", "e", "/">>
str_png == <<"p", "n", "g">>
str_gif == <<"g", "i", "f">>
str_jpeg == <<"j", "p", "e", "g">>
str_avif == <<"a", "v", "i", "f">>
str_original == <<"o", "r", "i", "g", "i", "n", "a", "l">>
str_application_json ==
    <<"a", "p", "p", "l", "i", "c", "a", "t", "i", "o", "n", "/", "j", "s", "o", "n">>

image_jpeg == str_image_slash \o str_jpeg
image_png == str_image_slash \o str_png
image_gif == str_image_slash \o str_gif
image_webp == str_image_slash \o <<"w", "e", "b", "p">>
image_bmp == str_image_slash \o <<"b", "m", "p">>
image_tiff == str_image_slash \o <<"t", "i", "f", "f">>

(***************************************************************************)
(* should_compress.rs                                                      *)
(***************************************************************************)
supported_image_types ==
    {image_jpeg, image_png, image_gif, image_webp, image_bmp, image_tiff}

is_supported_image_type(image_type) ==
    \E t \in supported_image_types : eq_ignore_ascii_case(image_type, t)

should_compress(image_type, size, is_transparent) ==
    IF image_type = <<>> THEN FALSE
    ELSE IF size > max_original_size \/ size < min_compress_length THEN FALSE
    ELSE IF ~is_supported_image_type(image_type) THEN FALSE
    ELSE IF is_transparent THEN size >= min_compress_length
    ELSE IF ends_with(image_type, str_png) \/ ends_with(image_type, str_gif)
         THEN size >= min_transparent_compress_length
    ELSE TRUE

(***************************************************************************)
(* main.rs: should_bypass_compression                                      *)
(***************************************************************************)
\* (mutant) the criteria are checked before the size threshold
should_bypass_compression_reordered(content_length, content_type, is_webp) ==
    IF ~should_compress(content_type, content_length, is_webp)
    THEN Some("criteria_not_met")
    ELSE IF content_length < bypass_threshold THEN Some("already_small")
    ELSE IF ~starts_with(content_type, str_image_slash) THEN Some("non-image")
    ELSE None

should_bypass_compression(content_length, content_type, is_webp) ==
    IF content_length < bypass_threshold THEN Some("already_small")
    ELSE IF ~should_compress(content_type, content_length, is_webp)
         THEN Some("criteria_not_met")
    ELSE IF ~starts_with(content_type, str_image_slash) THEN Some("non-image")
    ELSE None

(***************************************************************************)
(* compress.rs                                                             *)
(***************************************************************************)
\* f32 arithmetic.  A positive finite f32 is a record [m, x] that stands for
\* m * 2^x with m < 2^24 (the 24 significant bits of the format); the
\* operations round to nearest, ties to even, as IEEE 754 does.  Exponent
\* overflow and subnormals do not occur on the dimensions of the model.
\* 2^k for the exponents of the model
powers_of_two ==
    LET p[k \in 0..30] == IF k = 0 THEN 1 ELSE 2 * p[k - 1]
    IN  p

pow2(k) == powers_of_two[k]

RECURSIVE bit_length(_)
bit_length(n) == IF n = 0 THEN 0 ELSE 1 + bit_length(n \div 2)

f32_mantissa_bits == 24

\* The f32 of mantissa q after the bits below it were dropped: round up when
\* they are more than half a unit, or half a unit and q is odd.
f32_rounded(q, dropped, half, x) ==
    LET m == IF dropped > half \/ (dropped = half /\ q % 2 = 1) THEN q + 1 ELSE q
    IN  IF m = pow2(f32_mantissa_bits)
        THEN [m |-> pow2(f32_mantissa_bits - 1), x |-> x + 1]
        ELSE [m |-> m, x |-> x]

\* `n as f32` for a u32 below 2^24, where the conversion is exact
as_f32(n) == [m |-> n, x |-> 0]

\* Long division: the quotient bits of n / d until 24 are significant.
\* Keeps n * 2^s = q * d + r with r < d.
RECURSIVE f32_div_bits(_, _, _, _)
f32_div_bits(q, r, d, s) ==
    IF q >= pow2(f32_mantissa_bits - 1) THEN [q |-> q, r |-> r, s |-> s]
    ELSE IF 2 * r >= d THEN f32_div_bits(2 * q + 1, 2 * r - d, d, s + 1)
    ELSE f32_div_bits(2 * q, 2 * r, d, s + 1)

\* a / b in f32
f32_div(a, b) ==
    IF a.m = 0 THEN a
    ELSE LET t == f32_div_bits(a.m \div b.m, a.m % b.m, b.m, 0)
         IN  f32_rounded(t.q, 2 * t.r, b.m, a.x - b.x - t.s)

\* a * b in f32: the 48-bit product of the mantissas in two 24-bit limbs
\* (hi, lo), then rounded to 24 significant bits.
f32_mul(a, b) ==
    LET limb == pow2(12)
        a1 == a.m \div limb
        a0 == a.m % limb
        b1 == b.m \div limb
        b0 == b.m % limb
        mid == a1 * b0 + a0 * b1
        low == a0 * b0 + (mid % limb) * limb
        lo == low % pow2(f32_mantissa_bits)
        hi == a1 * b1 + mid \div limb + low \div pow2(f32_mantissa_bits)
        s == bit_length(hi)
    IN  IF hi = 0 THEN [m |-> lo, x |-> a.x + b.x]
        ELSE f32_rounded(hi * pow2(f32_mantissa_bits - s) + lo \div pow2(s),
                         2 * (lo % pow2(s)), pow2(s), a.x + b.x + s)

\* `v.round() as u32`: f32::round rounds half away from zero
round_as_u32(v) ==
    IF v.x >= 0 THEN v.m * pow2(v.x)
    ELSE IF -v.x > f32_mantissa_bits + 1 THEN 0
    ELSE (v.m + pow2(-v.x - 1)) \div pow2(-v.x)

\* ratio = max_width as f32 / width as f32;
\* ((width as f32 * ratio).round() as u32, (height as f32 * ratio).round() as u32)
calculate_dimensions(width, height, maxw) ==
    IF width <= maxw THEN <<width, height>>
    ELSE LET ratio == f32_div(as_f32(maxw), as_f32(width))
         IN  <<round_as_u32(f32_mul(as_f32(width), ratio)),
               round_as_u32(f32_mul(as_f32(height), ratio))>>

\* (mutant) AVIF is given up from max_avif_height on, not above it
select_format_from_ceiling(use_avif, calculated_height) ==
    IF calculated_height > max_jpeg_height THEN "Jpeg"
    ELSE IF use_avif /\ calculated_height >= max_avif_height THEN "Jpeg"
    ELSE IF use_avif THEN "Avif"
    ELSE "Jpeg"

select_format(use_avif, calculated_height) ==
    IF calculated_height > max_jpeg_height THEN "Jpeg"
    ELSE IF use_avif /\ calculated_height > max_avif_height THEN "Jpeg"
    ELSE IF use_avif THEN "Avif"
    ELSE "Jpeg"

\* u8::clamp
clamp(v, lo, hi) == IF v < lo THEN lo ELSE IF v > hi THEN hi ELSE v

effective_quality(grayscale, quality) ==
    IF grayscale THEN clamp(quality, grayscale_quality_min, grayscale_quality_max)
    ELSE quality

\* The sizes of the images of the model, as ImageReader::decode reports them.
ImageSizes ==
    {[width |-> d[1], height |-> d[2]] :
        d \in {<<800, 600>>, <<200, 150>>, <<1000, 1>>, <<400, 20000>>, <<800, 80000>>}}

\* calculate_dimensions(img.width(), img.height(), config.max_width) for
\* each of them
planned_dimensions ==
    [dims \in ImageSizes |-> calculate_dimensions(dims.width, dims.height, max_width)]

\* The arguments compress hands to compress_avif / compress_jpeg for a
\* decoded image of the given dimensions.
encoder_call(use_avif, grayscale, quality, dims) ==
    LET planned == planned_dimensions[dims]
    IN  [format |-> select_format(use_avif, planned[2]),
         quality |-> effective_quality(grayscale, quality),
         grayscale |-> grayscale,
         width |-> planned[1],
         height |-> planned[2]]

format_str(output_format) ==
    CASE output_format = "Avif" -> str_avif
      [] output_format = "Jpeg" -> str_jpeg
      [] OTHER -> str_jpeg

\* (mutant) operands swapped
is_larger_swapped(compressed_size, original_size) == original_size > compressed_size
\* (mutant) >= instead of >
is_larger_or_equal(compressed_size, original_size) == compressed_size >= original_size
\* The comparison that decides the fallback to the source bytes.
is_larger(compressed_size, original_size) == compressed_size > original_size

\* compress(image_data, use_avif, grayscale, quality, original_size, logger).
\* decoded is the outcome of ImageReader::decode (Ok(dimensions) or Err) and
\* encoded the outcome of the encoder (Ok(length of its output) or Err): the
\* two codecs are outside this repository.
compress(image_data, use_avif, grayscale, quality, original_size, decoded, encoded) ==
    IF ~decoded.ok THEN Err("ImageError")
    ELSE IF ~encoded.ok THEN Err("ImageError")
    ELSE
      LET enc == encoder_call(use_avif, grayscale, quality, decoded.val)
          compressed_data == [content |-> "encoded", len |-> encoded.val]
          compressed_size == compressed_data.len
          bytes_saved == original_size - compressed_size
      IN  IF is_larger(compressed_size, original_size)
          THEN Ok([data |-> image_data, format |-> str_original, bytes_saved |-> 0])
          ELSE Ok([data |-> compressed_data,
                   format |-> format_str(enc.format),
                   bytes_saved |-> bytes_saved])

(***************************************************************************)
(* pick.rs                                                                 *)
(*                                                                         *)
(* A HashMap<String, String> is a function from its keys to their values.  *)
(* The order in which HashMap::iter visits the entries is not part of the  *)
(* map's value (std seeds every map's hasher on its own), so it is an      *)
(* argument of its own: a sequence that lists each key once.               *)
(***************************************************************************)
\* str::to_lowercase on the ASCII names of the model
to_lowercase(s) == [i \in 1..Len(s) |-> to_ascii_lowercase(s[i])]

\* HashMap::new
empty_map == <<>>

\* HashMap::insert: a later insert of the same key replaces the value
insert(m, k, v) == [x \in DOMAIN m \cup {k} |-> IF x = k THEN v ELSE m[x]]

\* HashMap::get
get(m, k) == IF k \in DOMAIN m THEN Some(m[k]) ELSE None

\* source.iter().map(|(k, v)| (k.to_lowercase(), v)).collect(), the entries
\* visited in the given order
RECURSIVE source_key_map(_, _)
source_key_map(entries, order) ==
    IF order = <<>> THEN empty_map
    ELSE LET k == order[Len(order)]
         IN  insert(source_key_map(entries, SubSeq(order, 1, Len(order) - 1)),
                    to_lowercase(k), entries[k])

\* (mutant) the result is keyed by the lower-cased name
RECURSIVE pick_lowercase_keys(_, _, _)
pick_lowercase_keys(entries, order, properties) ==
    IF properties = <<>> THEN empty_map
    ELSE LET prop == properties[Len(properties)]
             result == pick_lowercase_keys(entries, order,
                                           SubSeq(properties, 1, Len(properties) - 1))
             value == get(source_key_map(entries, order), to_lowercase(prop))
         IN  IF value.some THEN insert(result, to_lowercase(prop), value.val) ELSE result

\* pick(source, properties), with the order in which source.iter() runs
RECURSIVE pick(_, _, _)
pick(entries, order, properties) ==
    IF properties = <<>> THEN empty_map
    ELSE LET prop == properties[Len(properties)]
             result == pick(entries, order, SubSeq(properties, 1, Len(properties) - 1))
             value == get(source_key_map(entries, order), to_lowercase(prop))
         IN  IF value.some THEN insert(result, prop, value.val) ELSE result

(***************************************************************************)
(* main.rs: query parsing, URL cleaning, hashing, responses                *)
(***************************************************************************)
\* str::trim on the raw url values of the model
trim(s) ==
    CASE s = "   " -> ""
      [] s = " http://example.com/a.png " -> "http://example.com/a.png"
      [] OTHER -> s

\* Url::parse(..).map(|u| u.to_string()) on the trimmed url values of the model
url_parse(s) ==
    CASE s = "http://example.com/a.png" -> Ok("http://example.com/a.png")
      [] s = "HTTP://EXAMPLE.COM" -> Ok("http://example.com/")
      [] OTHER -> Err("parse error")

\* str::parse::<u8>().ok() on a query value: text, or the decimal literal of n
parse_u8(v) ==
    IF v.numeric /\ v.n >= 0 /\ v.n <= 255 THEN Some(v.n) ELSE None

parse_query_params(p) ==
    IF p.url.some /\ trim(p.url.val) # ""
    THEN Ok([image_url |-> trim(p.url.val),
             is_webp |-> IF p.jpeg.some THEN p.jpeg.val = "1" ELSE FALSE,
             is_grayscale |-> IF p.bw.some THEN p.bw.val = "1" ELSE FALSE,
             quality |-> IF p.l.some /\ parse_u8(p.l.val).some
                         THEN parse_u8(p.l.val).val
                         ELSE default_quality])
    ELSE Err("Missing query parameters")

clean_image_url(url) ==
    IF url_parse(trim(url)).ok THEN Ok(url_parse(trim(url)).val) ELSE Err("Invalid URL")

\* hex(md5(url)): an uninterpreted digest of the url
generate_url_hash(url) == <<"md5hex", url>>

get_cache_headers ==
    ("content-encoding" :> "identity") @@
    ("cache-control" :> "private, no-store, no-cache, must-revalidate, max-age=0") @@
    ("pragma" :> "no-cache") @@
    ("expires" :> "0") @@
    ("vary" :> "url, jpeg, grayscale, quality")

\* (StatusCode, Json<ErrorResponse>)
create_error_response(status_code, message, url) ==
    [status |-> status_code,
     headers |-> ("content-type" :> str_application_json),
     body |-> [json |-> TRUE, error |-> message, url |-> url]]

\* HeaderValue::from_str accepts visible ASCII only
is_valid_header_value(s) == \A i \in 1..Len(s) : s[i] \notin {"\n", "\r"}

create_image_response(buffer, content_type) ==
    [status |-> 200,
     headers |-> ("content-type" :> (IF is_valid_header_value(content_type)
                                     THEN content_type ELSE image_jpeg)) @@
                 ("content-length" :> buffer.len) @@
                 get_cache_headers,
     body |-> [json |-> FALSE, bytes |-> buffer]]

\* response.headers_mut().insert(name, value)
insert_header(response, name, value) ==
    [response EXCEPT !.headers = (name :> value) @@ response.headers]

(***************************************************************************)
(* Inputs of the model.                                                    *)
(***************************************************************************)
text_l == [numeric |-> FALSE, n |-> 0]
number_l(k) == [numeric |-> TRUE, n |-> k]

UrlValues ==
    {None, Some(""), Some("   "), Some("not a url"),
     Some(" http://example.com/a.png "), Some("HTTP://EXAMPLE.COM")}
JpegValues == {None, Some("1"), Some("0")}
BwValues == {None, Some("1")}
LValues == {None, Some(text_l), Some(number_l(5)), Some(number_l(200)), Some(number_l(256))}

\* CompressionQuery: every url with every jpeg value, and every bw and l
\* value with one url.
Queries ==
    {q \in [url : UrlValues, jpeg : JpegValues, bw : BwValues, l : LValues] :
        \/ q.bw = None /\ q.l = None
        \/ q.url = Some("HTTP://EXAMPLE.COM") /\ q.jpeg # Some("0")}

\* The queries of the specification of the fetch orchestration.
FetchQueries ==
    {[url |-> u, jpeg |-> None, bw |-> None, l |-> None] :
        u \in {None, Some("HTTP://EXAMPLE.COM")}}

IMAGE_PNG == <<"I", "M", "A", "G", "E", "/", "P", "N", "G">>
image_PNG == str_image_slash \o <<"P", "N", "G">>
image_svg == str_image_slash \o <<"s", "v", "g", "+", "x", "m", "l">>
text_html == <<"t", "e", "x", "t", "/", "h", "t", "m", "l">>

ContentTypes ==
    {<<>>, image_jpeg, image_png, image_gif, image_webp,
     IMAGE_PNG, image_PNG, image_svg, text_html}

ContentLengths ==
    {0, min_compress_length - 1, min_compress_length, 5000,
     bypass_threshold - 1, bypass_threshold, 50000,
     min_transparent_compress_length - 1, min_transparent_compress_length,
     150000, max_original_size, max_original_size + 1}

Statuses == {199, 200, 299, 300, 404}

\* What curl hands back on Ok(response): status, content-type header, body.
\* Every content type and length with status 200; with the other statuses,
\* a page and an image that would be transcoded.
Responses ==
    {r \in [status : Statuses, content_type : ContentTypes,
            body : {[content |-> "upstream", len |-> n] : n \in ContentLengths}] :
        \/ r.status = 200
        \/ /\ r.content_type \in {text_html, image_jpeg}
           /\ r.body.len \in {0, 50000}}

FetchResponses ==
    {[status |-> st, content_type |-> image_jpeg,
      body |-> [content |-> "upstream", len |-> 5000]] : st \in {200, 404}}

\* curl's transport-level failures
TransportErrors == {"connect", "timeout"}

\* Outcomes of ImageReader::decode: an error, or the image's dimensions.
DecodeOutcomes == {Err("decode")} \cup {Ok(dims) : dims \in ImageSizes}

FetchDecodeOutcomes == {Ok([width |-> 800, height |-> 600])}

\* Outcomes of the encoder on a source of original_size bytes: an error, or
\* the length of its output, around the fallback boundary.
EncodeOutcomes ==
    [original_size \in ContentLengths |->
        {Err("encode")} \cup
        {Ok(n) : n \in {1000, original_size - 1, original_size, original_size + 1}}]

FetchEncodeOutcomes == [original_size \in ContentLengths |-> {Ok(1000)}]

\* Header names as the callers of pick spell them: the whitelist of
\* fetch_upstream_image (ServerConfig::default().fetch_headers_to_pick), the
\* whitelist of test_pick_case_insensitive, and source names in several casings.
hdr_cookie == <<"c", "o", "o", "k", "i", "e">>
hdr_dnt == <<"d", "n", "t">>
hdr_referer == <<"r", "e", "f", "e", "r", "e", "r">>
hdr_user_agent == <<"u", "s", "e", "r", "-", "a", "g", "e", "n", "t">>
hdr_accept == <<"a", "c", "c", "e", "p", "t">>
hdr_accept_language == hdr_accept \o <<"-", "l", "a", "n", "g", "u", "a", "g", "e">>
hdr_Accept == <<"A", "c", "c", "e", "p", "t">>
hdr_DNT == <<"D", "N", "T">>
hdr_Dnt == <<"D", "n", "t">>
hdr_REFERER == <<"R", "E", "F", "E", "R", "E", "R">>
hdr_via == <<"v", "i", "a">>

fetch_headers_to_pick ==
    <<hdr_cookie, hdr_dnt, hdr_referer, hdr_user_agent, hdr_accept, hdr_accept_language>>

HeaderNames == {hdr_dnt, hdr_DNT, hdr_Dnt, hdr_accept, hdr_REFERER, hdr_via}
HeaderValues == {"X", "Y"}

\* The source maps: at most MaxHeaders entries.
Sources ==
    UNION {[S -> HeaderValues] :
             S \in {T \in SUBSET HeaderNames : Cardinality(T) <= MaxHeaders}}

\* The orders in which HashMap::iter can visit the entries of a map.
IterationOrders(m) ==
    {o \in [1..Cardinality(DOMAIN m) -> DOMAIN m] :
        \A k \in DOMAIN m : \E i \in DOMAIN o : o[i] = k}

Whitelists == {<<>>, fetch_headers_to_pick, <<hdr_Accept, hdr_dnt>>, <<hdr_cookie>>}

\* Dimensions handed to the planner: around max_width, the sizes of the unit
\* tests, a wide and flat image, tall strips.
PlanWidths == {1, max_width - 1, max_width, max_width + 1, 800, 1000, 2603, 30000}
PlanHeights ==
    {1, 2, 3, 600, 18439, max_avif_height, max_avif_height + 1, 20000,
     max_jpeg_height, max_jpeg_height + 1, 80000}
PlanMaxWidths == {1, max_width, 1000}

\* Scaled heights handed to select_format: around the two ceilings and the
\* heights of test_select_format_height_limit.
ScaledHeights ==
    {0, 1, 1000, 16000, max_avif_height - 1, max_avif_height, max_avif_height + 1,
     20000, max_jpeg_height - 1, max_jpeg_height, max_jpeg_height + 1, 40000}

(***************************************************************************)
(* State.                                                                  *)
(***************************************************************************)
VARIABLES
    permits,    \* available permits of fetch_semaphore
    crowd,      \* the other requests' fetch calls, counted by position:
                \* throttling (permit held, sleeping), attempt1, attempt2
                \* (permit held, that GET running)
    orphans,    \* blocking GETs still running whose request was dropped
    pc,         \* position of the tracked request's task
    query,      \* its CompressionQuery
    call,       \* its fetch_upstream_image call
    fetched,    \* what that call returned, once it has
    trace,      \* which steps compress_handler ran after the fetch
    response,   \* the response of compress_handler, once it has one
    applied     \* last application of a pure function

vars == <<permits, crowd, orphans, pc, query, call, fetched, trace, response, applied>>

NoQuery == [url |-> None, jpeg |-> None, bw |-> None, l |-> None]
NoCall == [holds |-> FALSE, issued |-> 0, outcomes |-> <<>>, last_error |-> None]
NoTrace ==
    [bypass_checked |-> FALSE, bypass |-> None,
     compress_called |-> FALSE, compressed |-> None,
     encoder |-> None, encoded |-> None]
NotApplied == [fn |-> "none"]

Init ==
    /\ permits = Permits
    /\ crowd = [throttling |-> 0, attempt1 |-> 0, attempt2 |-> 0]
    /\ orphans = 0
    /\ pc = "idle"
    /\ query = NoQuery
    /\ call = NoCall
    /\ fetched = None
    /\ trace = NoTrace
    /\ response = None
    /\ applied = NotApplied

\* Values derived by compress_handler from the query (lines 306-316).
params == parse_query_params(query).val
image_url == clean_image_url(params.image_url).val
url_hash == generate_url_hash(image_url)

\* Upstream GETs running in spawn_blocking threads.
gets_in_progress ==
    (IF pc = "attempting" THEN 1 ELSE 0) + crowd.attempt1 + crowd.attempt2 + orphans

(***************************************************************************)
(* compress_handler after fetch_upstream_image has returned Ok(result):    *)
(* status check, bypass check, compress, response (lines 335-433).         *)
(* The result is the response and the steps that ran.                      *)
(***************************************************************************)
\* (mutant) the bypass branch forgets x-url-hash
bypass_response_without_hash(result, reason, hash) ==
    insert_header(create_image_response(result.data, result.content_type),
                  "x-bypass-reason", reason)

bypass_response(result, reason, hash) ==
    insert_header(
        insert_header(create_image_response(result.data, result.content_type),
                      "x-bypass-reason", reason),
        "x-url-hash", hash)

compressed_response(compression_result, hash) ==
    insert_header(
        insert_header(
            insert_header(
                create_image_response(compression_result.data,
                                      str_image_slash \o compression_result.format),
                "x-compressed-by", "bandwidth-hero"),
            "x-url-hash", hash),
        "x-bytes-saved", compression_result.bytes_saved)

\* (mutant) redirects pass as success
is_upstream_failure_from_400(status) == status < 200 \/ status >= 400
\* if fetch_result.status < 200 || fetch_result.status >= 300
is_upstream_failure(status) == status < 200 \/ status >= 300

handle_fetched(p, url, hash, result, decoded, encoded) ==
    IF is_upstream_failure(result.status)
    THEN [response |-> create_error_response(502, "Upstream fetch failed", Some(url)),
          trace |-> NoTrace]
    ELSE
      LET content_length == result.data.len
          reason == should_bypass_compression(content_length, result.content_type, p.is_webp)
          compressed == compress(result.data, ~p.is_webp, p.is_grayscale, p.quality,
                                 content_length, decoded, encoded)
      IN  IF reason.some
          THEN [response |-> bypass_response(result, reason.val, hash),
                trace |-> [NoTrace EXCEPT !.bypass_checked = TRUE, !.bypass = reason]]
          ELSE [response |->
                    IF compressed.ok
                    THEN compressed_response(compressed.val, hash)
                    ELSE create_error_response(500, "Compression failed", Some(url)),
                trace |->
                    [bypass_checked |-> TRUE,
                     bypass |-> None,
                     compress_called |-> TRUE,
                     compressed |-> Some(compressed),
                     encoder |-> IF decoded.ok
                                 THEN Some(encoder_call(~p.is_webp, p.is_grayscale,
                                                        p.quality, decoded.val))
                                 ELSE None,
                     encoded |-> IF decoded.ok THEN Some(encoded) ELSE None]]

(***************************************************************************)
(* The tracked request: compress_handler and its fetch_upstream_image call.*)
(***************************************************************************)
\* A request arrives: parse_query_params, clean_image_url, generate_url_hash,
\* then fetch_upstream_image up to semaphore.acquire().await.
Receive(Q) ==
    \E q \in Q :
        /\ pc = "idle"
        /\ query' = q
        /\ call' = NoCall
        /\ fetched' = None
        /\ trace' = NoTrace
        /\ LET parsed == parse_query_params(q)
           IN  IF ~parsed.ok
               THEN /\ response' = Some(create_error_response(400, parsed.err, None))
                    /\ pc' = "done"
               ELSE IF ~clean_image_url(parsed.val.image_url).ok
               THEN /\ response' =
                        Some(create_error_response(
                                400, clean_image_url(parsed.val.image_url).err, None))
                    /\ pc' = "done"
               ELSE /\ response' = None
                    /\ pc' = "acquiring"
        /\ UNCHANGED <<permits, crowd, orphans, applied>>

\* semaphore.acquire().await completes: _permit is held from here on.
Acquire ==
    /\ pc = "acquiring"
    /\ permits > 0
    /\ permits' = permits - 1
    /\ call' = [call EXCEPT !.holds = TRUE]
    /\ pc' = "throttling"
    /\ UNCHANGED <<crowd, orphans, query, fetched, trace, response, applied>>

\* The 400 ms sleep is over: first iteration of the loop, spawn_blocking.
StartGet ==
    /\ pc = "throttling"
    /\ call' = [call EXCEPT !.issued = 1]
    /\ pc' = "attempting"
    /\ UNCHANGED <<permits, crowd, orphans, query, fetched, trace, response, applied>>

\* The error fetch_upstream_image returns when the loop is exhausted.
exhausted_error(c) ==
    IF c.last_error.some THEN c.last_error.val ELSE <<"Unknown fetch error">>

\* The GET ends in Err(e): last_error is set; the loop either issues the
\* next GET or is exhausted, and then the call returns Err(last_error) and
\* _permit is dropped.
GetTransportError ==
    \E e \in TransportErrors :
        /\ pc = "attempting"
        /\ LET after == [call EXCEPT
                            !.outcomes = Append(@, [kind |-> "transport", error |-> e]),
                            !.last_error = Some(<<"Fetch error", e>>)]
           IN  IF Len(after.outcomes) < fetch_attempts
               THEN /\ call' = [after EXCEPT !.issued = @ + 1]
                    /\ UNCHANGED <<permits, pc, fetched>>
               ELSE /\ call' = [after EXCEPT !.holds = FALSE]
                    /\ permits' = permits + 1
                    /\ fetched' = Some(Err(exhausted_error(after)))
                    /\ pc' = "fetched"
        /\ UNCHANGED <<crowd, orphans, query, trace, response, applied>>

\* (mutant) the early return on a JoinError keeps the permit
GetJoinError_keeps_permit ==
    /\ pc = "attempting"
    /\ call' = [call EXCEPT !.outcomes = Append(@, [kind |-> "join"])]
    /\ fetched' = Some(Err(<<"Join error", "panic">>))
    /\ pc' = "fetched"
    /\ UNCHANGED <<permits, crowd, orphans, query, trace, response, applied>>

\* The blocking task panicked: .await yields a JoinError, `?` returns.
GetJoinError ==
    /\ pc = "attempting"
    /\ call' = [call EXCEPT !.outcomes = Append(@, [kind |-> "join"]),
                            !.holds = FALSE]
    /\ permits' = permits + 1
    /\ fetched' = Some(Err(<<"Join error", "panic">>))
    /\ pc' = "fetched"
    /\ UNCHANGED <<crowd, orphans, query, trace, response, applied>>

\* The GET ends in Ok(response): the call returns Ok(UpstreamFetchResult)
\* with the response's status, and _permit is dropped.
GetResponds(R) ==
    \E r \in R :
        /\ pc = "attempting"
        /\ call' = [call EXCEPT
                       !.outcomes = Append(@, [kind |-> "response", status |-> r.status]),
                       !.holds = FALSE]
        /\ permits' = permits + 1
        /\ fetched' = Some(Ok([status |-> r.status,
                               content_type |-> r.content_type,
                               data |-> r.body]))
        /\ pc' = "fetched"
        /\ UNCHANGED <<crowd, orphans, query, trace, response, applied>>

\* compress_handler goes on with what fetch_upstream_image returned, whose
\* frame is gone: an Err becomes a 502, an Ok(result) runs through the
\* status check, the bypass check and compress.  No await point lies
\* between the return of the fetch and the response.
Handle(D, E) ==
    /\ pc = "fetched"
    /\ call' = NoCall
    /\ IF ~fetched.val.ok
       THEN /\ response' = Some(create_error_response(502, "Failed to fetch image",
                                                      Some(image_url)))
            /\ trace' = NoTrace
       ELSE LET result == fetched.val.val
                \* the codecs have an outcome only when compress is reached
                reached ==
                    /\ ~is_upstream_failure(result.status)
                    /\ ~should_bypass_compression(result.data.len, result.content_type,
                                                  params.is_webp).some
            IN  \E decoded \in IF reached THEN D ELSE {Err("not run")} :
                    \E encoded \in IF reached /\ decoded.ok
                                    THEN E[result.data.len] ELSE {Err("not run")} :
                        LET handled == handle_fetched(params, image_url, url_hash,
                                                      result, decoded, encoded)
                        IN  /\ response' = Some(handled.response)
                            /\ trace' = handled.trace
    /\ pc' = "done"
    /\ UNCHANGED <<permits, crowd, orphans, query, fetched, applied>>

\* The response has been written, or the dropped future is gone: the task
\* ends and the next request can be tracked.
Finish ==
    /\ pc \in {"done", "cancelled"}
    /\ pc' = "idle"
    /\ query' = NoQuery
    /\ call' = NoCall
    /\ fetched' = None
    /\ trace' = NoTrace
    /\ response' = None
    /\ UNCHANGED <<permits, crowd, orphans, applied>>

\* The client goes away: the handler's future is dropped at its await
\* point.  Dropping it drops _permit if it is held; a running blocking
\* task is detached by dropping its JoinHandle and keeps running.
Cancel ==
    /\ pc \in {"acquiring", "throttling", "attempting"}
    /\ pc = "attempting" => orphans < MaxOrphans
    /\ permits' = IF call.holds THEN permits + 1 ELSE permits
    /\ orphans' = IF pc = "attempting" THEN orphans + 1 ELSE orphans
    /\ call' = [call EXCEPT !.holds = FALSE]
    /\ pc' = "cancelled"
    /\ UNCHANGED <<crowd, query, fetched, trace, response, applied>>

\* A detached blocking GET ends; nobody reads its result.
OrphanEnds ==
    /\ orphans > 0
    /\ orphans' = orphans - 1
    /\ UNCHANGED <<permits, crowd, pc, query, call, fetched, trace, response, applied>>

(***************************************************************************)
(* The other requests' fetch calls, counted.                               *)
(***************************************************************************)
CrowdAcquire ==
    /\ permits > 0
    /\ permits' = permits - 1
    /\ crowd' = [crowd EXCEPT !.throttling = @ + 1]
    /\ UNCHANGED <<orphans, pc, query, call, fetched, trace, response, applied>>

CrowdStartGet ==
    /\ crowd.throttling > 0
    /\ crowd' = [crowd EXCEPT !.throttling = @ - 1, !.attempt1 = @ + 1]
    /\ UNCHANGED <<permits, orphans, pc, query, call, fetched, trace, response, applied>>

\* first GET failed at transport level: second GET
CrowdRetry ==
    /\ crowd.attempt1 > 0
    /\ crowd' = [crowd EXCEPT !.attempt1 = @ - 1, !.attempt2 = @ + 1]
    /\ UNCHANGED <<permits, orphans, pc, query, call, fetched, trace, response, applied>>

\* first GET got a response or a join error: the call returns
CrowdReturnFirst ==
    /\ crowd.attempt1 > 0
    /\ crowd' = [crowd EXCEPT !.attempt1 = @ - 1]
    /\ permits' = permits + 1
    /\ UNCHANGED <<orphans, pc, query, call, fetched, trace, response, applied>>

\* second GET ended, whatever its outcome: the call returns
CrowdReturnSecond ==
    /\ crowd.attempt2 > 0
    /\ crowd' = [crowd EXCEPT !.attempt2 = @ - 1]
    /\ permits' = permits + 1
    /\ UNCHANGED <<orphans, pc, query, call, fetched, trace, response, applied>>

CrowdCancelThrottling ==
    /\ crowd.throttling > 0
    /\ crowd' = [crowd EXCEPT !.throttling = @ - 1]
    /\ permits' = permits + 1
    /\ UNCHANGED <<orphans, pc, query, call, fetched, trace, response, applied>>

CrowdCancelAttempting ==
    /\ orphans < MaxOrphans
    /\ \E a \in {"attempt1", "attempt2"} :
        /\ crowd[a] > 0
        /\ crowd' = [crowd EXCEPT ![a] = @ - 1]
    /\ permits' = permits + 1
    /\ orphans' = orphans + 1
    /\ UNCHANGED <<pc, query, call, fetched, trace, response, applied>>

(***************************************************************************)
(* Applications of the pure policy functions.                              *)
(***************************************************************************)
ApplyShouldCompress ==
    \E t \in ContentTypes, n \in ContentLengths, f \in BOOLEAN :
        /\ applied' = [fn |-> "should_compress",
                       image_type |-> t, size |-> n, is_transparent |-> f,
                       result |-> should_compress(t, n, f)]
        /\ UNCHANGED <<permits, crowd, orphans, pc, query, call, fetched, trace, response>>

ApplyShouldBypass ==
    \E t \in ContentTypes, n \in ContentLengths, f \in BOOLEAN :
        /\ applied' = [fn |-> "should_bypass_compression",
                       content_type |-> t, content_length |-> n, is_webp |-> f,
                       result |-> should_bypass_compression(n, t, f)]
        /\ UNCHANGED <<permits, crowd, orphans, pc, query, call, fetched, trace, response>>

(***************************************************************************)
(* Applications of pick: one run on a source map, then a second run on a   *)
(* map of the same entries whose iteration runs in an order of its own.    *)
(***************************************************************************)
ApplyPick ==
    \E m \in Sources, w \in Whitelists :
      \E o \in IterationOrders(m) :
        /\ applied = NotApplied
        /\ applied' = [fn |-> "pick", source |-> m, properties |-> w,
                       runs |-> <<pick(m, o, w)>>]
        /\ UNCHANGED <<permits, crowd, orphans, pc, query, call, fetched, trace, response>>

ApplyPickAgain ==
    /\ applied.fn = "pick"
    /\ Len(applied.runs) = 1
    /\ \E o \in IterationOrders(applied.source) :
        applied' = [applied EXCEPT
                      !.runs = Append(@, pick(applied.source, o, applied.properties))]
    /\ UNCHANGED <<permits, crowd, orphans, pc, query, call, fetched, trace, response>>

(***************************************************************************)
(* Applications of the planner: calculate_dimensions on an image size,     *)
(* calculate_dimensions again on what it planned, and select_format.       *)
(***************************************************************************)
ApplyCalculateDimensions ==
    \E w \in PlanWidths, h \in PlanHeights, maxw \in PlanMaxWidths :
        /\ applied = NotApplied
        /\ applied' = [fn |-> "calculate_dimensions",
                       width |-> w, height |-> h, max_width |-> maxw,
                       result |-> calculate_dimensions(w, h, maxw),
                       replanned |-> FALSE]
        /\ UNCHANGED <<permits, crowd, orphans, pc, query, call, fetched, trace, response>>

\* The planned size is planned again, with its width as the maximum.
ApplyCalculateDimensionsAgain ==
    /\ applied.fn = "calculate_dimensions"
    /\ ~applied.replanned
    /\ LET w == applied.result[1]
           h == applied.result[2]
       IN  applied' = [fn |-> "calculate_dimensions",
                       width |-> w, height |-> h, max_width |-> w,
                       result |-> calculate_dimensions(w, h, w),
                       replanned |-> TRUE]
    /\ UNCHANGED <<permits, crowd, orphans, pc, query, call, fetched, trace, response>>

ApplySelectFormat ==
    \E a \in BOOLEAN, h \in ScaledHeights :
        /\ applied = NotApplied
        /\ applied' = [fn |-> "select_format",
                       use_avif |-> a, calculated_height |-> h,
                       result |-> select_format(a, h)]
        /\ UNCHANGED <<permits, crowd, orphans, pc, query, call, fetched, trace, response>>

(***************************************************************************)
(* Specifications.                                                         *)
(***************************************************************************)
\* One request at a time through the whole pipeline, all inputs.
Next ==
    \/ Receive(Queries)
    \/ Acquire
    \/ StartGet
    \/ GetTransportError
    \/ GetJoinError
    \/ GetResponds(Responses)
    \/ Handle(DecodeOutcomes, EncodeOutcomes)
    \/ Finish
    \/ Cancel
    \/ OrphanEnds

Spec == Init /\ [][Next]_vars

\* The fetch orchestration: the tracked request among the other requests.
NextFetch ==
    \/ Receive(FetchQueries)
    \/ Acquire
    \/ StartGet
    \/ GetTransportError
    \/ GetJoinError
    \/ GetResponds(FetchResponses)
    \/ Handle(FetchDecodeOutcomes, FetchEncodeOutcomes)
    \/ Finish
    \/ Cancel
    \/ OrphanEnds
    \/ CrowdAcquire
    \/ CrowdStartGet
    \/ CrowdRetry
    \/ CrowdReturnFirst
    \/ CrowdReturnSecond
    \/ CrowdCancelThrottling
    \/ CrowdCancelAttempting

SpecFetch == Init /\ [][NextFetch]_vars

\* The fetch orchestration under the scheduling the code can rely on: tokio
\* hands a free permit to a waiting acquire() (its semaphore queues the
\* waiters), fires the 400 ms timer and runs a task that is ready.  When a
\* GET ends is up to curl and the upstream: fetch_upstream_image sets no
\* timeout on the Client it builds, so no step of the code ends a GET that
\* the upstream leaves unanswered.  Arrivals and disconnects are up to the
\* clients.
SpecFetchFair ==
    /\ Init
    /\ [][NextFetch]_vars
    /\ SF_vars(Acquire)
    /\ WF_vars(StartGet)
    /\ WF_vars(Handle(FetchDecodeOutcomes, FetchEncodeOutcomes))
    /\ WF_vars(Finish)
    /\ WF_vars(CrowdStartGet)

\* The bypass policy as pure functions.
NextPolicy ==
    \/ ApplyShouldCompress
    \/ ApplyShouldBypass

SpecPolicy == Init /\ [][NextPolicy]_vars

\* pick as a pure function of the map, its iteration order and the whitelist.
NextPick ==
    \/ ApplyPick
    \/ ApplyPickAgain

SpecPick == Init /\ [][NextPick]_vars

\* The dimension planner as pure functions.
NextPlan ==
    \/ ApplyCalculateDimensions
    \/ ApplyCalculateDimensionsAgain
    \/ ApplySelectFormat

SpecPlan == Init /\ [][NextPlan]_vars

(***************************************************************************)
(* Properties.                                                             *)
(***************************************************************************)
responded == pc = "done" /\ response.some
fetch_ok == fetched.some /\ fetched.val.ok
source == fetched.val.val
transcoded == responded /\ trace.compress_called /\ trace.compressed.val.ok
outcome == trace.compressed.val.val
has_header(name) == name \in DOMAIN response.val.headers

\* C1: for a request that reaches the transcoder, the bytes compress returns
\* (and the response body) are never longer than the fetched body; if the
\* encoder's output is longer, the result is the source bytes verbatim,
\* tagged "original", with bytes_saved = 0.
C1_OutputNeverLonger ==
    transcoded =>
        /\ outcome.data.len <= source.data.len
        /\ response.val.body.bytes = outcome.data
        /\ trace.encoded.val.val > source.data.len =>
            /\ outcome.data = source.data
            /\ outcome.format = str_original
            /\ outcome.bytes_saved = 0

C1_Witness ==
    /\ transcoded
    /\ trace.encoded.val.val > source.data.len
    /\ outcome.format = str_original

\* C2: at every moment the number of upstream GETs in progress is at most
\* the permit capacity, also when requests are dropped while their blocking
\* GET is running, and each in-flight fetch call holds exactly one permit.
held_permits ==
    (IF call.holds THEN 1 ELSE 0) + crowd.throttling + crowd.attempt1 + crowd.attempt2

C2_GetsBoundedByPermits ==
    /\ gets_in_progress <= Permits
    /\ pc \in {"throttling", "attempting"} => call.holds
    /\ permits + held_permits = Permits

\* C3: the permit is released on every exit path of fetch_upstream_image:
\* when no fetch call is in flight all permits are available, and a call
\* that ends while waiting for the permit does not lower the permit count.
no_call_in_flight ==
    /\ pc \notin {"throttling", "attempting"}
    /\ crowd.throttling = 0 /\ crowd.attempt1 = 0 /\ crowd.attempt2 = 0

C3_PermitReleasedOnEveryExit ==
    /\ [](no_call_in_flight => permits = Permits)
    /\ [][(pc = "acquiring" /\ pc' \notin {"acquiring", "throttling"})
            => permits' >= permits]_vars

C3_Witness ==
    /\ pc = "fetched"
    /\ ~fetched.val.ok
    /\ Len(call.outcomes) = 2
    /\ no_call_in_flight
    /\ permits = Permits

\* C4: a second GET is issued iff the first ended in a transport failure; no
\* third GET; two transport failures return an error carrying the last
\* attempt's error; any HTTP response ends the call after that attempt and
\* is returned as Ok with that status.
C4_RetryPolicy ==
    LET o == call.outcomes
    IN  /\ call.issued <= 2
        /\ call.issued = 2 <=> (Len(o) >= 1 /\ o[1].kind = "transport")
        /\ (Len(o) = 2 /\ o[1].kind = "transport" /\ o[2].kind = "transport") =>
            /\ pc = "fetched"
            /\ fetched.val = Err(<<"Fetch error", o[2].error>>)
        /\ \A i \in 1..Len(o) :
            o[i].kind = "response" =>
                /\ i = Len(o)
                /\ call.issued = i
                /\ pc = "fetched"
                /\ fetch_ok
                /\ source.status = o[i].status

C4_Witness ==
    /\ pc = "fetched"
    /\ Len(call.outcomes) = 2
    /\ call.outcomes[1] = [kind |-> "transport", error |-> "timeout"]
    /\ call.outcomes[2] = [kind |-> "transport", error |-> "connect"]
    /\ fetched.val = Err(<<"Fetch error", "connect">>)

\* C5: every answered request has one response; a missing, blank or
\* unparseable url gives 400 with no permit acquired and no GET issued; a
\* fetch error or an upstream status outside [200,300) gives 502 with neither
\* the bypass check nor the transcoder run; a codec failure gives 500; every
\* failure response is a JSON error body without image bytes.
bad_url(q) == ~q.url.some \/ q.url.val \in {"", "   ", "not a url"}

is_json_error(r) ==
    /\ r.body.json
    /\ "bytes" \notin DOMAIN r.body
    /\ r.headers["content-type"] = str_application_json

C5_Outcomes ==
    pc = "done" =>
        /\ response.some
        /\ response.val.status \in {200, 400, 500, 502}
        /\ bad_url(query) => response.val.status = 400 /\ ~fetched.some
        /\ ~bad_url(query) => fetched.some
        /\ (fetched.some /\ ~fetched.val.ok) =>
            /\ response.val.status = 502
            /\ ~trace.bypass_checked /\ ~trace.compress_called
        /\ (fetch_ok /\ source.status \notin 200..299) =>
            /\ response.val.status = 502
            /\ ~trace.bypass_checked /\ ~trace.compress_called
        /\ (trace.compress_called /\ ~trace.compressed.val.ok) =>
            response.val.status = 500
        /\ response.val.status = 200 <=>
            /\ fetch_ok
            /\ source.status \in 200..299
            /\ trace.bypass.some \/ (trace.compress_called /\ trace.compressed.val.ok)
        /\ response.val.status # 200 => is_json_error(response.val)
        /\ response.val.status = 200 => ~response.val.body.json

C5_FailureStatuses ==
    /\ []C5_Outcomes
    /\ [][(pc = "idle" /\ pc' # "idle" /\ bad_url(query'))
            => /\ pc' = "done"
               /\ response'.val.status = 400
               /\ permits' = permits
               /\ call'.issued = 0
               /\ gets_in_progress' = gets_in_progress]_vars

C5_Witness ==
    /\ pc = "done"
    /\ fetch_ok
    /\ source.status = 404
    /\ source.content_type = image_jpeg
    /\ source.data.len = 50000
    /\ response.val.status = 502

\* C6: when the client did not force JPEG (no jpeg=1), a 2xx image/png or
\* image/gif body of 50000 bytes is transcoded, not bypassed; the 100 KiB
\* floor for PNG/GIF applies only when the client forced JPEG.
C6_AvifFamilyNeedsOnlyMinLength ==
    (/\ pc = "done"
     /\ fetch_ok
     /\ source.status \in 200..299
     /\ source.content_type \in {image_png, image_gif}
     /\ source.data.len = 50000) =>
        IF query.jpeg = Some("1")
        THEN trace.bypass = Some("criteria_not_met")
        ELSE trace.compress_called /\ ~has_header("x-bypass-reason")

\* C7: with the transparency flag set, image/png of 50000 bytes is accepted
\* (should_compress is true, no bypass) and image/png of 5000 bytes is
\* rejected (should_compress is false, bypass reason "criteria_not_met").
C7_TransparentPng ==
    /\ (/\ applied.fn = "should_compress"
        /\ applied.image_type = image_png
        /\ applied.is_transparent) =>
            /\ applied.size = 50000 => applied.result
            /\ applied.size = 5000 => ~applied.result
    /\ (/\ applied.fn = "should_bypass_compression"
        /\ applied.content_type = image_png
        /\ applied.is_webp) =>
            /\ applied.content_length = 50000 => applied.result = None
            /\ applied.content_length = 5000 =>
                applied.result = Some("criteria_not_met")

\* C8: should_bypass_compression decides in first-match order: below the
\* bypass threshold "already_small" whatever the type and flag; otherwise
\* "criteria_not_met" when should_compress is false; otherwise "non-image"
\* when the type does not start with "image/"; otherwise no bypass.
C8_FirstMatchOrder ==
    applied.fn = "should_bypass_compression" =>
        LET n == applied.content_length
            t == applied.content_type
            compressible == should_compress(t, n, applied.is_webp)
            image == starts_with(t, str_image_slash)
        IN  /\ n < bypass_threshold => applied.result = Some("already_small")
            /\ (n >= bypass_threshold /\ ~compressible) =>
                applied.result = Some("criteria_not_met")
            /\ (n >= bypass_threshold /\ compressible /\ ~image) =>
                applied.result = Some("non-image")
            /\ (n >= bypass_threshold /\ compressible /\ image) =>
                applied.result = None

C8_Witness ==
    /\ applied.fn = "should_bypass_compression"
    /\ applied.content_length < bypass_threshold
    /\ applied.content_type = text_html
    /\ ~should_compress(applied.content_type, applied.content_length, applied.is_webp)
    /\ applied.result = Some("already_small")

\* C9 (as claimed): x-url-hash is present on every response, whatever its
\* outcome (bypassed, transcoded or error).
C9_HashOnEveryResponse ==
    responded => has_header("x-url-hash")

\* C9 (amended): x-url-hash, the digest of the parsed upstream url, is
\* present on every 200 response (bypassed or transcoded); the error
\* responses (400, 502, 500) carry no x-url-hash.
C9_HashOnImageResponses ==
    responded =>
        IF response.val.status = 200
        THEN /\ has_header("x-url-hash")
             /\ response.val.headers["x-url-hash"] =
                    generate_url_hash(url_parse(trim(query.url.val)).val)
        ELSE ~has_header("x-url-hash")

C9_Witness ==
    /\ responded
    /\ response.val.status = 200
    /\ trace.bypass.some
    /\ query.url = Some(" http://example.com/a.png ")
    /\ response.val.headers["x-url-hash"] = <<"md5hex", "http://example.com/a.png">>

\* C10: the transcoder falls back to the source bytes iff the encoded size
\* is strictly greater than original_size; otherwise (equality included) it
\* returns the encoded bytes with the codec's format tag and
\* bytes_saved = original_size - encoded size; bytes_saved is never negative.
C10_FallbackIffStrictlyLarger ==
    transcoded =>
        LET encoded_size == trace.encoded.val.val
            original_size == source.data.len
        IN  /\ outcome.format = str_original <=> encoded_size > original_size
            /\ outcome.data = source.data <=> encoded_size > original_size
            /\ encoded_size <= original_size =>
                /\ outcome.data = [content |-> "encoded", len |-> encoded_size]
                /\ outcome.format =
                    (IF trace.encoder.val.format = "Avif" THEN str_avif ELSE str_jpeg)
                /\ outcome.bytes_saved = original_size - encoded_size
            /\ outcome.bytes_saved >= 0

C10_Witness ==
    /\ transcoded
    /\ trace.encoded.val.val = source.data.len
    /\ outcome.data.content = "encoded"
    /\ outcome.bytes_saved = 0

\* The whitelist names that match some name of the map m, ignoring ASCII case.
matching(m, w) ==
    {w[i] : i \in {j \in DOMAIN w : \E k \in DOMAIN m : eq_ignore_ascii_case(k, w[j])}}

\* C11: the keys of the map pick returns are exactly the whitelist names that
\* match some source name ignoring case, in the whitelist's spelling; each
\* carries the value of a source header of that name; a whitelist name
\* without a match has no entry and no other key appears.
C11_PickProjectsWhitelist ==
    applied.fn = "pick" =>
        \A r \in DOMAIN applied.runs :
            LET result == applied.runs[r]
            IN  /\ DOMAIN result = matching(applied.source, applied.properties)
                /\ \A p \in DOMAIN result :
                      \E k \in DOMAIN applied.source :
                          /\ eq_ignore_ascii_case(k, p)
                          /\ result[p] = applied.source[k]

\* A run that keeps the whitelist's spelling "Accept" for the source header
\* "accept", has no entry for the unmatched "dnt", and drops "via".
C11_Witness ==
    /\ applied.fn = "pick"
    /\ applied.properties = <<hdr_Accept, hdr_dnt>>
    /\ DOMAIN applied.source = {hdr_accept, hdr_via}
    /\ DOMAIN applied.runs[1] = {hdr_Accept}
    /\ applied.runs[1][hdr_Accept] = applied.source[hdr_accept]

\* C16: for a source with several names that differ only in case, two runs
\* of pick on the same source and whitelist return the same map.
C16_PickDeterministic ==
    (applied.fn = "pick" /\ Len(applied.runs) = 2) =>
        applied.runs[1] = applied.runs[2]

planned_here == applied.fn = "calculate_dimensions"

\* n is the quotient num / den rounded to the nearest integer (either
\* neighbour when the quotient lies halfway).
is_nearest(n, num, den) ==
    /\ 2 * (n * den - num) <= den
    /\ 2 * (num - n * den) <= den

\* C12: calculate_dimensions(w, h, max) returns (w, h) if w <= max; otherwise
\* its width is max and its height is h * max / w rounded to the nearest
\* integer; planning the planned size again with max equal to the planned
\* width returns it unchanged.
C12_PlannedDimensions ==
    planned_here =>
        /\ applied.width <= applied.max_width =>
              applied.result = <<applied.width, applied.height>>
        /\ applied.width > applied.max_width =>
              /\ applied.result[1] = applied.max_width
              /\ is_nearest(applied.result[2],
                            applied.height * applied.max_width, applied.width)
        /\ applied.replanned => applied.result = <<applied.width, applied.height>>

\* C13: select_format returns AVIF exactly when AVIF was requested and the
\* scaled height is at most max_avif_height; otherwise it returns JPEG.
C13_AvifIffRequestedAndFits ==
    applied.fn = "select_format" =>
        /\ applied.result \in {"Avif", "Jpeg"}
        /\ applied.result = "Avif" <=>
              (applied.use_avif /\ applied.calculated_height <= max_avif_height)

\* AVIF is kept at exactly max_avif_height.
C13_Witness ==
    /\ applied.fn = "select_format"
    /\ applied.use_avif
    /\ applied.calculated_height = max_avif_height
    /\ applied.result = "Avif"

\* C20: for a source of width >= 1 and height >= 1, both planned dimensions
\* are at least 1.
C20_PlannedDimensionsPositive ==
    (planned_here /\ applied.width >= 1 /\ applied.height >= 1) =>
        /\ applied.result[1] >= 1
        /\ applied.result[2] >= 1

\* The encoder was invoked for the tracked request: its arguments.
encoder_invoked == pc = "done" /\ trace.encoder.some
encoder_args == trace.encoder.val

\* C14: the quality handed to the encoder is the requested quality clamped
\* into [10, 40] when grayscale is requested and the requested quality
\* otherwise; for every value of l it lies in [0, 100]; an absent or
\* unparseable l yields 40.
C14_EffectiveQuality ==
    encoder_invoked =>
        LET requested == params.quality
        IN  /\ (query.l = None \/ query.l = Some(text_l)) => requested = 40
            /\ encoder_args.quality =
                  IF query.bw = Some("1")
                  THEN (IF requested < 10 THEN 10
                        ELSE IF requested > 40 THEN 40 ELSE requested)
                  ELSE requested
            /\ encoder_args.quality \in 0..100

\* C15: the encoder that is invoked is never given an image higher than its
\* ceiling: 16383 for AVIF, 32767 for JPEG.
C15_HeightCeilingHonoured ==
    encoder_invoked =>
        /\ encoder_args.format = "Avif" => encoder_args.height <= 16383
        /\ encoder_args.format = "Jpeg" => encoder_args.height <= 32767

\* C19: a 200 response declares the upstream content type when its body is
\* the upstream bytes (bypass, or the transcoder's fallback) and image/jpeg
\* or image/avif when its body is encoded output; x-bypass-reason is on
\* exactly the bypassed responses, x-compressed-by and x-bytes-saved on
\* exactly those that went through the transcoder, never both.
C19_ContentTypeDescribesBody ==
    (responded /\ response.val.status = 200) =>
        LET declared == response.val.headers["content-type"]
            bytes == response.val.body.bytes
        IN  /\ bytes.content = "upstream" => declared = source.content_type
            /\ bytes.content = "encoded" =>
                  declared \in {image_jpeg, str_image_slash \o str_avif}
            /\ has_header("x-bypass-reason") <=> trace.bypass.some
            /\ has_header("x-compressed-by") <=> trace.compress_called
            /\ has_header("x-bytes-saved") <=> trace.compress_called
            /\ ~(has_header("x-bypass-reason") /\ has_header("x-compressed-by"))

\* C18: should_bypass_compression returns the same result for a content type
\* and for every re-casing of it, with the same length and flag; the reason
\* "non-image" is never returned for a supported image type.
C18_BypassIgnoresCase ==
    applied.fn = "should_bypass_compression" =>
        /\ \A recased \in ContentTypes :
              eq_ignore_ascii_case(recased, applied.content_type) =>
                  should_bypass_compression(applied.content_length, recased,
                                            applied.is_webp) = applied.result
        /\ (\E t \in supported_image_types :
                eq_ignore_ascii_case(applied.content_type, t)) =>
              applied.result # Some("non-image")

\* C17: every fetch call that has acquired a permit eventually returns and
\* releases it, and every request waiting for a permit eventually acquires
\* one (or its client gives up), whatever the upstream servers do.
C17_FetchTerminates ==
    /\ call.holds ~> ~call.holds
    /\ (pc = "acquiring") ~> (pc # "acquiring")

====
